---------------------------- MODULE Spec2Model ----------------------------
(***************************************************************************)
(* A model of esbuild-license-compliance-plugin: the compliance engine     *)
(* (src/src/lib.ts: isIgnored, parseLicenseExpression, isLicenseAllowed,   *)
(* checkLicenseCompliance), package discovery (findPackageJson,            *)
(* resolvePackagePath, scanDirectPackage, scanPackages) and the esbuild    *)
(* onStart hook (src/src/index.ts).                                        *)
(*                                                                         *)
(* JavaScript strings are sequences of one-character strings, so that      *)
(* toLowerCase, trim, split, includes and RegExp.test are computed on the  *)
(* characters as the code computes them.                                   *)
(***************************************************************************)
EXTENDS Naturals, Sequences, FiniteSets

VARIABLES
    pc,          \* position of the running call
    options,     \* LicenseComplianceOptions handed to the plugin / the check
    packages,    \* PackageInfo[] handed to checkLicenseCompliance
    idx,         \* index of the for-of loop of checkLicenseCompliance
    violations,  \* the violations array of checkLicenseCompliance
    warnings,    \* console.warn calls made so far, in order
    error,       \* the error thrown by the scan or the check, or NoError
    cwd,         \* process.cwd(), a directory of the chain / <- 1 <- ... <- MaxDepth
    manifestAt,  \* the directories of the chain that hold a package.json
    manifest,    \* content of the project's package.json
    installed,   \* what is installed under node_modules, per package name
    currentPath, \* local of findPackageJson
    found,       \* result of findPackageJson: a directory, or Null
    lookups,     \* per key of allDependencies: the settled result of its lookup
    hookResult   \* what the onStart callback resolved with

vars == <<pc, options, packages, idx, violations, warnings, error, cwd,
          manifestAt, manifest, installed, currentPath, found, lookups,
          hookResult>>

engineVars == <<options, packages, idx, violations>>
scanVars == <<cwd, manifestAt, manifest, installed, currentPath, found, lookups>>

-----------------------------------------------------------------------------
(* Bounds *)

\* longest package list handed to checkLicenseCompliance
MaxPkgs == 2
\* depth of the deepest directory below the filesystem root
MaxDepth == 2

-----------------------------------------------------------------------------
(* Strings *)

\* the lower-case letter of each upper-case letter
LowerOf ==
    [A |-> "a", B |-> "b", C |-> "c", D |-> "d", E |-> "e", F |-> "f",
     G |-> "g", H |-> "h", I |-> "i", J |-> "j", K |-> "k", L |-> "l",
     M |-> "m", N |-> "n", O |-> "o", P |-> "p", Q |-> "q", R |-> "r",
     S |-> "s", T |-> "t", U |-> "u", V |-> "v", W |-> "w", X |-> "x",
     Y |-> "y", Z |-> "z"]

toLowerChar(c) == IF c \in DOMAIN LowerOf THEN LowerOf[c] ELSE c

\* String.prototype.toLowerCase
toLowerCase(s) == [i \in DOMAIN s |-> toLowerChar(s[i])]

\* the characters \s matches and trim() strips
IsSpace(c) == c \in {" ", "\t", "\n"}

\* String.prototype.includes: sub occurs in s as a contiguous substring
includes(s, sub) ==
    \E i \in 0..Len(s) :
        /\ i + Len(sub) <= Len(s)
        /\ \A k \in 1..Len(sub) : s[i + k] = sub[k]

\* String.prototype.trim
trim(s) ==
    IF \A i \in DOMAIN s : IsSpace(s[i]) THEN <<>>
    ELSE LET first == CHOOSE i \in DOMAIN s :
                          /\ ~IsSpace(s[i])
                          /\ \A j \in 1..(i - 1) : IsSpace(s[j])
             last == CHOOSE i \in DOMAIN s :
                          /\ ~IsSpace(s[i])
                          /\ \A j \in (i + 1)..Len(s) : IsSpace(s[j])
         IN SubSeq(s, first, last)

RECURSIVE Concat(_)
\* the concatenation of a sequence of strings
Concat(ss) == IF ss = <<>> THEN <<>> ELSE Head(ss) \o Concat(Tail(ss))

RECURSIVE join(_, _)
\* Array.prototype.join
join(ss, sep) ==
    IF ss = <<>> THEN <<>>
    ELSE IF Len(ss) = 1 THEN ss[1]
    ELSE ss[1] \o sep \o join(Tail(ss), sep)

RECURSIVE filterNonEmpty(_)
\* xs.filter((license) => license.length > 0)
filterNonEmpty(xs) ==
    IF xs = <<>> THEN <<>>
    ELSE IF Len(Head(xs)) > 0 THEN <<Head(xs)>> \o filterNonEmpty(Tail(xs))
    ELSE filterNonEmpty(Tail(xs))

-----------------------------------------------------------------------------
(* Values *)

\* an optional property that is absent, and one that holds v
Undefined == [given |-> FALSE, value |-> <<>>]
Given(v) == [given |-> TRUE, value |-> v]
\* null is the empty sequence, a non-null value v the sequence <<v>>
Null == <<>>
NoError == [name |-> <<>>, message |-> <<>>]

\* some of the SPDXLicenseId values
MIT == <<"M","I","T">>
ISC == <<"I","S","C">>
GPL3 == <<"G","P","L","-","3",".","0","-","o","n","l","y">>
LGPL3 == <<"L","G","P","L","-","3",".","0","-","o","n","l","y">>

\* the sentinel extractLicense returns
UNKNOWN == <<"U","N","K","N","O","W","N">>

-----------------------------------------------------------------------------
(* The compliance engine *)

\* the regex source isIgnored builds from a glob pattern: * -> .*, ? -> .
\* (the third replace, [x] -> [x], changes nothing)
GlobToRegex(pattern) ==
    Concat([i \in DOMAIN pattern |->
               IF pattern[i] = "*" THEN <<".", "*">>
               ELSE IF pattern[i] = "?" THEN <<".">>
               ELSE <<pattern[i]>>])

\* new RegExp throws a SyntaxError: a "[" that no "]" closes
RegexInvalid(regex) ==
    \E i \in DOMAIN regex :
        /\ regex[i] = "["
        /\ \A j \in (i + 1)..Len(regex) : regex[j] # "]"

RECURSIVE RegexMatchFrom(_, _, _, _)
\* whether regex[r..] matches exactly name[n..]: "." followed by "*" is any
\* run of characters, "." is any one character but a line terminator, any
\* other character of the model's alphabet is itself
RegexMatchFrom(regex, r, name, n) ==
    IF r > Len(regex) THEN n > Len(name)
    ELSE IF regex[r] = "." /\ r < Len(regex) /\ regex[r + 1] = "*"
    THEN \E m \in n..(Len(name) + 1) :
            /\ \A k \in n..(m - 1) : name[k] # "\n"
            /\ RegexMatchFrom(regex, r + 2, name, m)
    ELSE /\ n <= Len(name)
         /\ IF regex[r] = "." THEN name[n] # "\n" ELSE regex[r] = name[n]
         /\ RegexMatchFrom(regex, r + 1, name, n + 1)

\* new RegExp(`^${regexPattern}$`).test(packageName)
RegexTest(regex, name) == RegexMatchFrom(regex, 1, name, 1)

\* the callback of ignores.some(...) for one pattern
PatternMatches(pattern, packageName) ==
    RegexTest(GlobToRegex(pattern), packageName)

\* ignores.some(...) compiles the patterns in order and stops at the first
\* match: it throws iff an invalid pattern precedes every matching one
isIgnoredThrows(packageName, ignores) ==
    \E i \in DOMAIN ignores :
        /\ RegexInvalid(GlobToRegex(ignores[i]))
        /\ \A j \in 1..(i - 1) : ~PatternMatches(ignores[j], packageName)

\* isIgnored with a fault: only the first pattern is tried
isIgnored_FirstPattern(packageName, ignores) ==
    Len(ignores) > 0 /\ PatternMatches(ignores[1], packageName)

isIgnored(packageName, ignores) ==
    \E i \in DOMAIN ignores : PatternMatches(ignores[i], packageName)

\* the end (exclusive) of a match of /\s+(?:OR)\s+/i starting at i, or 0
SplitMatchEnd(s, i) ==
    IF i > Len(s) \/ ~IsSpace(s[i]) THEN 0
    ELSE LET o == CHOOSE j \in (i + 1)..(Len(s) + 1) :
                      /\ j = Len(s) + 1 \/ ~IsSpace(s[j])
                      /\ \A k \in i..(j - 1) : IsSpace(s[k])
         IN IF /\ o + 2 <= Len(s)
               /\ toLowerChar(s[o]) = "o"
               /\ toLowerChar(s[o + 1]) = "r"
               /\ IsSpace(s[o + 2])
            THEN CHOOSE e \in (o + 3)..(Len(s) + 1) :
                     /\ e = Len(s) + 1 \/ ~IsSpace(s[e])
                     /\ \A k \in (o + 2)..(e - 1) : IsSpace(s[k])
            ELSE 0

RECURSIVE splitFrom(_, _, _)
\* the pieces of s from position start on, the next separator sought from i on
splitFrom(s, i, start) ==
    IF i > Len(s) THEN <<SubSeq(s, start, Len(s))>>
    ELSE LET e == SplitMatchEnd(s, i)
         IN IF e # 0
            THEN <<SubSeq(s, start, i - 1)>> \o splitFrom(s, e, e)
            ELSE splitFrom(s, i + 1, start)

\* licenseExpression.split(/\s+(?:OR)\s+/i)
split(s) == splitFrom(s, 1, 1)

parseLicenseExpression(licenseExpression) ==
    LET parts == split(licenseExpression)
    IN filterNonEmpty([i \in DOMAIN parts |-> trim(parts[i])])

\* MatchesAny with a fault: identifiers compared for equality
MatchesAny_Exact(license, ids) ==
    \E i \in DOMAIN ids : toLowerCase(license) = toLowerCase(ids[i])

\* disallowed.some((d) => lowerLicense.includes(d.toLowerCase()))
MatchesAny(license, ids) ==
    \E i \in DOMAIN ids : includes(toLowerCase(license), toLowerCase(ids[i]))

Quote == <<"'">>
ReasonDenied(license) ==
    <<"L","i","c","e","n","s","e"," ">> \o Quote \o license \o Quote
        \o <<" ","i","s"," ","n","o","t"," ","a","l","l","o","w","e","d">>
ReasonNoneAllowed(licenses) ==
    <<"N","o","n","e"," ","o","f"," ","t","h","e"," ",
      "l","i","c","e","n","s","e","s"," ">>
        \o Quote \o join(licenses, <<",", " ">>) \o Quote
        \o <<" ","a","r","e"," ","n","o","t"," ","i","n"," ","t","h","e"," ",
             "a","l","l","o","w","e","d"," ","l","i","s","t">>

\* isLicenseAllowed with a fault: the allow-list is consulted first
isLicenseAllowed_AllowFirst(license, allowed, disallowed) ==
    LET licenses == parseLicenseExpression(license)
    IN IF /\ Len(allowed) > 0
          /\ \E i \in DOMAIN licenses : MatchesAny(licenses[i], allowed)
       THEN [allowed |-> TRUE, reason |-> <<>>]
       ELSE IF \E i \in DOMAIN licenses : MatchesAny(licenses[i], disallowed)
       THEN [allowed |-> FALSE,
             reason |-> ReasonDenied(
                 licenses[CHOOSE i \in DOMAIN licenses :
                              MatchesAny(licenses[i], disallowed)])]
       ELSE IF Len(allowed) > 0
       THEN [allowed |-> FALSE, reason |-> ReasonNoneAllowed(licenses)]
       ELSE [allowed |-> TRUE, reason |-> <<>>]

\* isLicenseAllowed with a fault: the allow-list is required even when empty
isLicenseAllowed_NoLengthCheck(license, allowed, disallowed) ==
    LET licenses == parseLicenseExpression(license)
    IN IF \E i \in DOMAIN licenses : MatchesAny(licenses[i], disallowed)
       THEN [allowed |-> FALSE,
             reason |-> ReasonDenied(
                 licenses[CHOOSE i \in DOMAIN licenses :
                              MatchesAny(licenses[i], disallowed)])]
       ELSE IF ~\E i \in DOMAIN licenses : MatchesAny(licenses[i], allowed)
       THEN [allowed |-> FALSE, reason |-> ReasonNoneAllowed(licenses)]
       ELSE [allowed |-> TRUE, reason |-> <<>>]

isLicenseAllowed(license, allowed, disallowed) ==
    LET licenses == parseLicenseExpression(license)
    IN IF \E i \in DOMAIN licenses : MatchesAny(licenses[i], disallowed)
       THEN LET i == CHOOSE i \in DOMAIN licenses :
                         /\ MatchesAny(licenses[i], disallowed)
                         /\ \A j \in 1..(i - 1) :
                                ~MatchesAny(licenses[j], disallowed)
            IN [allowed |-> FALSE, reason |-> ReasonDenied(licenses[i])]
       ELSE IF /\ Len(allowed) > 0
               /\ ~\E i \in DOMAIN licenses : MatchesAny(licenses[i], allowed)
       THEN [allowed |-> FALSE, reason |-> ReasonNoneAllowed(licenses)]
       ELSE [allowed |-> TRUE, reason |-> <<>>]

\* const { allowed = [], disallowed = [], ignores = [] } = options
Default(v) == IF v.given THEN v.value ELSE <<>>

WarnNoLicense(name) ==
    name \o <<":"," ","N","o"," ","l","i","c","e","n","s","e"," ",
              "i","n","f","o","r","m","a","t","i","o","n"," ",
              "f","o","u","n","d">>

\* the SyntaxError new RegExp throws for an invalid source
RegexSyntaxError(regex) ==
    [name |-> <<"S","y","n","t","a","x","E","r","r","o","r">>,
     message |->
        <<"I","n","v","a","l","i","d"," ","r","e","g","u","l","a","r"," ",
          "e","x","p","r","e","s","s","i","o","n",":"," ","/","^">>
        \o regex
        \o <<"$","/",":"," ","U","n","t","e","r","m","i","n","a","t","e","d",
             " ","c","h","a","r","a","c","t","e","r"," ","c","l","a","s","s">>]

\* CheckOne with a fault: a package with no license is warned about and then
\* evaluated like any other
CheckOne_UnknownEvaluated(pkg, allowed, disallowed, ignores, vs, ws) ==
    IF isIgnored(pkg.name, ignores)
    THEN [violations |-> vs, warnings |-> ws]
    ELSE LET licenseCheck == isLicenseAllowed(pkg.license, allowed, disallowed)
             ws2 == IF pkg.license = UNKNOWN
                    THEN Append(ws, WarnNoLicense(pkg.name)) ELSE ws
         IN IF ~licenseCheck.allowed /\ Len(licenseCheck.reason) > 0
            THEN [violations |->
                      Append(vs, [package |-> pkg.name,
                                  license |-> pkg.license,
                                  reason |-> licenseCheck.reason]),
                  warnings |-> ws2]
            ELSE [violations |-> vs, warnings |-> ws2]

\* CheckOne with a fault: a violation is put at the front of the list
CheckOne_Unshift(pkg, allowed, disallowed, ignores, vs, ws) ==
    IF isIgnored(pkg.name, ignores)
    THEN [violations |-> vs, warnings |-> ws]
    ELSE IF pkg.license = UNKNOWN
    THEN [violations |-> vs, warnings |-> Append(ws, WarnNoLicense(pkg.name))]
    ELSE LET licenseCheck == isLicenseAllowed(pkg.license, allowed, disallowed)
         IN IF ~licenseCheck.allowed /\ Len(licenseCheck.reason) > 0
            THEN [violations |->
                      <<[package |-> pkg.name,
                         license |-> pkg.license,
                         reason |-> licenseCheck.reason]>> \o vs,
                  warnings |-> ws]
            ELSE [violations |-> vs, warnings |-> ws]

\* one iteration of the for-of loop of checkLicenseCompliance on pkg:
\* the violations and the warnings after it
CheckOne(pkg, allowed, disallowed, ignores, vs, ws) ==
    IF isIgnored(pkg.name, ignores)
    THEN [violations |-> vs, warnings |-> ws]
    ELSE IF pkg.license = UNKNOWN
    THEN [violations |-> vs, warnings |-> Append(ws, WarnNoLicense(pkg.name))]
    ELSE LET licenseCheck == isLicenseAllowed(pkg.license, allowed, disallowed)
         IN IF ~licenseCheck.allowed /\ Len(licenseCheck.reason) > 0
            THEN [violations |->
                      Append(vs, [package |-> pkg.name,
                                  license |-> pkg.license,
                                  reason |-> licenseCheck.reason]),
                  warnings |-> ws]
            ELSE [violations |-> vs, warnings |-> ws]

\* checkLicenseCompliance, the body of the loop for packages[idx]
CheckPackage ==
    /\ pc = "check"
    /\ idx <= Len(packages)
    /\ ~isIgnoredThrows(packages[idx].name, Default(options.ignores))
    /\ LET after == CheckOne(packages[idx], Default(options.allowed),
                             Default(options.disallowed),
                             Default(options.ignores), violations, warnings)
       IN /\ violations' = after.violations
          /\ warnings' = after.warnings
    /\ idx' = idx + 1
    /\ UNCHANGED <<pc, options, packages, error, scanVars, hookResult>>

\* checkLicenseCompliance, isIgnored throws on packages[idx]
CheckThrows ==
    /\ pc = "check"
    /\ idx <= Len(packages)
    /\ isIgnoredThrows(packages[idx].name, Default(options.ignores))
    /\ LET ignores == Default(options.ignores)
           i == CHOOSE i \in DOMAIN ignores :
                    /\ RegexInvalid(GlobToRegex(ignores[i]))
                    /\ \A j \in 1..(i - 1) :
                           ~RegexInvalid(GlobToRegex(ignores[j]))
       IN error' = RegexSyntaxError(GlobToRegex(ignores[i]))
    /\ pc' = "checkThrew"
    /\ UNCHANGED <<options, packages, idx, violations, warnings, scanVars,
                   hookResult>>

\* checkLicenseCompliance, return violations
CheckReturn ==
    /\ pc = "check"
    /\ idx > Len(packages)
    /\ pc' = "checkReturned"
    /\ UNCHANGED <<options, packages, idx, violations, warnings, error,
                   scanVars, hookResult>>

-----------------------------------------------------------------------------
(* Inputs of the compliance engine *)

Range(xs) == {xs[i] : i \in DOMAIN xs}

SeqsUpTo(S, n) == UNION {[1..k -> S] : k \in 0..n}

PackageNames == {<<"a","b">>, <<"a",".","b">>}

Licenses ==
    { MIT,
      LGPL3,
      <<"G","P","L","-","3",".","0">>,
      UNKNOWN,
      toLowerCase(MIT) \o <<" "," ","o","R","\t">> \o GPL3,
      <<" ">> }

Version1 == <<"1",".","0",".","0">>

PackageInfos ==
    {[name |-> n, version |-> Version1, license |-> l, path |-> "project"] :
        n \in PackageNames, l \in Licenses}

AllowedLists == {Undefined, Given(<<MIT>>), Given(<<ISC, GPL3>>)}
DisallowedLists == {Given(<<>>), Given(<<GPL3>>), Given(<<LGPL3, MIT>>)}
IgnoreLists ==
    { Undefined,
      Given(<<<<"a","?">>>>),
      Given(<<<<"*">>>>),
      Given(<<<<"b">>, <<"a",".","b">>>>),
      Given(<<<<"a",".","b">>, <<"b">>>>),
      Given(<<<<"a">>, <<"a","b","*">>>>) }

EngineOptions ==
    {[allowed |-> al, disallowed |-> dl, ignores |-> ig,
      dependencies |-> Undefined] :
        al \in AllowedLists, dl \in DisallowedLists, ig \in IgnoreLists}

NoManifest ==
    [valid |-> FALSE, dependencies |-> <<>>, devDependencies |-> <<>>,
     optionalDependencies |-> <<>>, peerDependencies |-> <<>>]
NotReturned == [kind |-> "pending", errors |-> <<>>]

\* the scan and the hook take no part in a direct call of the check
ScanIdle ==
    /\ cwd = 0
    /\ manifestAt = {}
    /\ manifest = NoManifest
    /\ installed = <<>>
    /\ currentPath = 0
    /\ found = Null
    /\ lookups = <<>>

\* checkLicenseCompliance(packages, options) is called
InitEngine ==
    /\ pc = "check"
    /\ options \in EngineOptions
    /\ packages \in SeqsUpTo(PackageInfos, MaxPkgs)
    /\ idx = 1
    /\ violations = <<>>
    /\ warnings = <<>>
    /\ error = NoError
    /\ ScanIdle
    /\ hookResult = NotReturned

NextEngine == CheckPackage \/ CheckReturn

SpecEngine == InitEngine /\ [][NextEngine]_vars


-----------------------------------------------------------------------------
(* Package discovery *)

\* path.dirname on the chain of directories: the root is its own parent
dirname(dir) == IF dir = 0 THEN 0 ELSE dir - 1

extractLicense(pkg) ==
    IF pkg.license.given /\ Len(pkg.license.value) > 0
    THEN pkg.license.value
    ELSE IF pkg.licenses.given /\ Len(pkg.licenses.value) > 0
    THEN join([i \in DOMAIN pkg.licenses.value |->
                  pkg.licenses.value[i].type], <<" ","O","R"," ">>)
    ELSE UNKNOWN

\* what node_modules/<name> is in directory dir: the two directories the code
\* looks in are the project's (the manifest's) and the working directory
NodeModules(dir, packageName) ==
    IF dir = cwd THEN installed[packageName].cwd
    ELSE installed[packageName].project

\* the candidates of resolvePackagePath, in order
Candidates(basePath) == <<basePath, cwd>>

\* resolvePackagePath finds no candidate and throws
ResolveThrows(packageName, basePath) ==
    \A i \in 1..2 : NodeModules(Candidates(basePath)[i], packageName) = "absent"

\* resolvePackagePath: the first candidate that exists
resolvePackagePath(packageName, basePath) ==
    IF NodeModules(basePath, packageName) # "absent" THEN basePath ELSE cwd

ErrorOf(message) == [name |-> <<"E","r","r","o","r">>, message |-> message]

PackageNotFound(packageName) ==
    ErrorOf(<<"P","a","c","k","a","g","e"," ">> \o packageName
                \o <<" ","n","o","t"," ","f","o","u","n","d">>)

\* the SyntaxError of JSON.parse
JsonSyntaxError ==
    [name |-> <<"S","y","n","t","a","x","E","r","r","o","r">>,
     message |-> <<"U","n","e","x","p","e","c","t","e","d"," ","e","n","d"," ",
                   "o","f"," ","J","S","O","N"," ","i","n","p","u","t">>]

\* the content of node_modules/<name>/package.json, when it parses
PackageJsonOf(packageName) ==
    IF packageName = <<"a","b">>
    THEN [version |-> Given(<<"1",".","0",".","0">>), license |-> Given(MIT),
          licenses |-> Undefined]
    ELSE IF packageName = <<"a",".","b">>
    THEN [version |-> Undefined, license |-> Undefined,
          licenses |-> Given(<<[type |-> GPL3], [type |-> MIT]>>)]
    ELSE [version |-> Given(<<"2",".","1",".","0">>), license |-> Given(<<>>),
          licenses |-> Given(<<>>)]

\* the catch block of scanDirectPackage: the warning for a caught error
WarnCaught(packageName, err) ==
    IF includes(err.message, <<"n","o","t"," ","f","o","u","n","d">>)
    THEN <<"S","k","i","p","p","i","n","g"," ">> \o packageName
            \o <<":"," ","n","o","t"," ","f","o","u","n","d"," ","(",
                 "p","o","s","s","i","b","l","y"," ","a"," ","p","e","e","r",
                 " ","d","e","p","e","n","d","e","n","c","y",")">>
    ELSE <<"F","a","i","l","e","d"," ","t","o"," ","s","c","a","n"," ">>
            \o packageName \o <<":"," ">> \o err.message

\* scanDirectPackage with a fault: a failed lookup resolves with a placeholder
\* record instead of null
scanDirectPackage_Placeholder(packageName, basePath) ==
    IF \/ ResolveThrows(packageName, basePath)
       \/ NodeModules(resolvePackagePath(packageName, basePath), packageName)
              # "valid"
    THEN [value |-> <<[name |-> packageName,
                       version |-> <<"u","n","k","n","o","w","n">>,
                       license |-> UNKNOWN,
                       path |-> "project"]>>,
          warnings |-> <<>>]
    ELSE [value |-> <<[name |-> packageName,
                       version |-> <<"u","n","k","n","o","w","n">>,
                       license |-> extractLicense(PackageJsonOf(packageName)),
                       path |-> "project"]>>,
          warnings |-> <<>>]

\* scanDirectPackage: the value its promise resolves with (null, or <<info>>)
\* and the warnings it logs
scanDirectPackage(packageName, basePath) ==
    IF ResolveThrows(packageName, basePath)
    THEN [value |-> Null,
          warnings |-> <<WarnCaught(packageName, PackageNotFound(packageName))>>]
    ELSE LET packagePath == resolvePackagePath(packageName, basePath)
             state == NodeModules(packagePath, packageName)
         IN IF state = "nopkgjson"
            THEN [value |-> Null,
                  warnings |->
                      <<<<"N","o"," ","p","a","c","k","a","g","e",".","j","s",
                          "o","n"," ","f","o","u","n","d"," ","f","o","r"," ">>
                            \o packageName>>]
            ELSE IF state = "garbled"
            THEN [value |-> Null,
                  warnings |-> <<WarnCaught(packageName, JsonSyntaxError)>>]
            ELSE LET packageJson == PackageJsonOf(packageName)
                 IN [value |->
                        <<[name |-> packageName,
                           version |->
                              IF /\ packageJson.version.given
                                 /\ Len(packageJson.version.value) > 0
                              THEN packageJson.version.value
                              ELSE <<"u","n","k","n","o","w","n">>,
                           license |-> extractLicense(packageJson),
                           path |-> IF packagePath = cwd THEN "cwd"
                                    ELSE "project"]>>,
                     warnings |-> <<>>]

RECURSIVE Dedupe(_)
\* the keys of an object built by inserting these keys in order
Dedupe(keys) ==
    IF keys = <<>> THEN <<>>
    ELSE LET front == Dedupe(SubSeq(keys, 1, Len(keys) - 1))
             last == keys[Len(keys)]
         IN IF last \in Range(front) THEN front ELSE Append(front, last)

\* Object.keys(allDependencies): the four groups spread in order
allDependencies(packageJson) ==
    Dedupe(packageJson.dependencies \o packageJson.devDependencies
               \o packageJson.optionalDependencies
               \o packageJson.peerDependencies)

RECURSIVE filterBoolean(_)
\* results.filter(Boolean): the non-null results
filterBoolean(results) ==
    IF results = <<>> THEN <<>>
    ELSE Head(results) \o filterBoolean(Tail(results))

\* scanPackages is called: findPackageJson() starts at process.cwd()
ScanPackages ==
    /\ pc = "scanPackages"
    /\ currentPath' = cwd
    /\ pc' = "findPackageJson"
    /\ UNCHANGED <<engineVars, warnings, error, cwd, manifestAt, manifest,
                   installed, found, lookups, hookResult>>

\* findPackageJson, an iteration of the loop that finds a package.json
FindFound ==
    /\ pc = "findPackageJson"
    /\ currentPath # dirname(currentPath)
    /\ currentPath \in manifestAt
    /\ found' = <<currentPath>>
    /\ pc' = "readManifest"
    /\ UNCHANGED <<engineVars, warnings, error, cwd, manifestAt, manifest,
                   installed, currentPath, lookups, hookResult>>

\* findPackageJson, an iteration of the loop that moves to the parent
FindUp ==
    /\ pc = "findPackageJson"
    /\ currentPath # dirname(currentPath)
    /\ currentPath \notin manifestAt
    /\ currentPath' = dirname(currentPath)
    /\ UNCHANGED <<pc, engineVars, warnings, error, cwd, manifestAt, manifest,
                   installed, found, lookups, hookResult>>

\* findPackageJson leaves the loop and returns null; scanPackages throws
FindNull ==
    /\ pc = "findPackageJson"
    /\ currentPath = dirname(currentPath)
    /\ found' = Null
    /\ error' = ErrorOf(<<"p","a","c","k","a","g","e",".","j","s","o","n"," ",
                          "n","o","t"," ","f","o","u","n","d">>)
    /\ pc' = "scanRejected"
    /\ UNCHANGED <<engineVars, warnings, cwd, manifestAt, manifest, installed,
                   currentPath, lookups, hookResult>>

\* scanPackages reads and parses the manifest and starts one lookup per key
ReadManifest ==
    /\ pc = "readManifest"
    /\ IF manifest.valid
       THEN /\ lookups' = [i \in DOMAIN allDependencies(manifest) |->
                              [settled |-> FALSE, value |-> Null]]
            /\ pc' = "lookups"
            /\ UNCHANGED error
       ELSE /\ error' = JsonSyntaxError
            /\ pc' = "scanRejected"
            /\ UNCHANGED lookups
    /\ UNCHANGED <<engineVars, warnings, cwd, manifestAt, manifest, installed,
                   currentPath, found, hookResult>>

\* the lookup of the i-th key runs to its end
ScanDirectPackage(i) ==
    /\ pc = "lookups"
    /\ ~lookups[i].settled
    /\ LET result == scanDirectPackage(allDependencies(manifest)[i], found[1])
       IN /\ lookups' = [lookups EXCEPT ![i] = [settled |-> TRUE,
                                                value |-> result.value]]
          /\ warnings' = warnings \o result.warnings
    /\ UNCHANGED <<pc, engineVars, error, cwd, manifestAt, manifest, installed,
                   currentPath, found, hookResult>>

\* Promise.all settles: scanPackages resolves with the non-null results
ScanResolves ==
    /\ pc = "lookups"
    /\ \A i \in DOMAIN lookups : lookups[i].settled
    /\ packages' = filterBoolean([i \in DOMAIN lookups |-> lookups[i].value])
    /\ pc' = "scanResolved"
    /\ UNCHANGED <<options, idx, violations, warnings, error, scanVars,
                   hookResult>>

-----------------------------------------------------------------------------
(* Inputs of the discovery *)

ScanNames == PackageNames \cup {<<"c">>}

InstallStates ==
    { [project |-> "valid", cwd |-> "absent"],
      [project |-> "absent", cwd |-> "valid"],
      [project |-> "absent", cwd |-> "absent"],
      [project |-> "nopkgjson", cwd |-> "valid"],
      [project |-> "garbled", cwd |-> "garbled"] }

Manifests ==
    { [valid |-> TRUE,
       dependencies |-> <<<<"a","b">>, <<"a",".","b">>>>,
       devDependencies |-> <<<<"c">>>>,
       optionalDependencies |-> <<>>, peerDependencies |-> <<>>],
      [valid |-> TRUE,
       dependencies |-> <<<<"c">>>>,
       devDependencies |-> <<<<"a",".","b">>, <<"c">>>>,
       optionalDependencies |-> <<>>,
       peerDependencies |-> <<<<"a","b">>, <<"a",".","b">>>>],
      [valid |-> TRUE,
       dependencies |-> <<>>, devDependencies |-> <<>>,
       optionalDependencies |-> <<<<"a","b">>>>, peerDependencies |-> <<>>],
      [valid |-> TRUE,
       dependencies |-> <<>>, devDependencies |-> <<>>,
       optionalDependencies |-> <<>>, peerDependencies |-> <<>>],
      [valid |-> FALSE,
       dependencies |-> <<>>, devDependencies |-> <<>>,
       optionalDependencies |-> <<>>, peerDependencies |-> <<>>] }

NoOptions ==
    [allowed |-> Undefined, disallowed |-> Undefined, ignores |-> Undefined,
     dependencies |-> Undefined]

\* scanPackages() is called
InitScan ==
    /\ pc = "scanPackages"
    /\ cwd \in 0..MaxDepth
    /\ manifestAt \in SUBSET (0..MaxDepth)
    /\ manifest \in Manifests
    /\ installed \in [ScanNames -> InstallStates]
    /\ currentPath = cwd
    /\ found = Null
    /\ lookups = <<>>
    /\ options = NoOptions
    /\ packages = <<>>
    /\ idx = 1
    /\ violations = <<>>
    /\ warnings = <<>>
    /\ error = NoError
    /\ hookResult = NotReturned

NextScan ==
    \/ ScanPackages
    \/ FindFound
    \/ FindUp
    \/ FindNull
    \/ ReadManifest
    \/ \E i \in DOMAIN lookups : ScanDirectPackage(i)
    \/ ScanResolves

SpecScan == InitScan /\ [][NextScan]_vars

-----------------------------------------------------------------------------
(* The esbuild plugin *)

\* `${error}`: Error.prototype.toString
ErrorToString(err) ==
    IF err.message = <<>> THEN err.name
    ELSE err.name \o <<":"," ">> \o err.message

ViolationsPrefix ==
    <<"L","i","c","e","n","s","e"," ","v","i","o","l","a","t","i","o","n","s",
      " ","f","o","u","n","d",":"," ">>
FailedPrefix ==
    <<"L","i","c","e","n","s","e"," ","c","h","e","c","k"," ",
      "f","a","i","l","e","d",":"," ">>

\* violationList with a fault: the entries are joined without the comma
violationList_NoComma(vs) ==
    join([i \in DOMAIN vs |->
             vs[i].package \o <<" ","(">> \o vs[i].license \o <<")">>],
         <<" ">>)

\* violations.map((v) => `${v.package} (${v.license})`).join(", ")
violationList(vs) ==
    join([i \in DOMAIN vs |->
             vs[i].package \o <<" ","(">> \o vs[i].license \o <<")">>],
         <<",", " ">>)

\* the payload { errors: [{ text, location: null }] }
ErrorsPayload(text) ==
    [kind |-> "errors", errors |-> <<[text |-> text, location |-> Null]>>]

\* esbuild runs the onStart callback: the try block calls scanPackages()
OnStart ==
    /\ pc = "onStart"
    /\ pc' = "scanPackages"
    /\ UNCHANGED <<engineVars, warnings, error, scanVars, hookResult>>

\* the awaited scan resolved: checkLicenseCompliance(packages, options || {})
\* is called with its result
HookCallsCheck ==
    /\ pc = "scanResolved"
    /\ idx' = 1
    /\ violations' = <<>>
    /\ pc' = "check"
    /\ UNCHANGED <<options, packages, warnings, error, scanVars, hookResult>>

\* violations.length > 0: the callback returns the violations payload
HookReturnsViolations ==
    /\ pc = "checkReturned"
    /\ Len(violations) > 0
    /\ hookResult' = ErrorsPayload(ViolationsPrefix \o violationList(violations))
    /\ pc' = "done"
    /\ UNCHANGED <<engineVars, warnings, error, scanVars>>

\* no violation: the callback returns nothing
HookReturnsNothing ==
    /\ pc = "checkReturned"
    /\ Len(violations) = 0
    /\ hookResult' = [kind |-> "undefined", errors |-> <<>>]
    /\ pc' = "done"
    /\ UNCHANGED <<engineVars, warnings, error, scanVars>>

\* the catch block: the scan rejected or the check threw
HookCatches ==
    /\ pc \in {"scanRejected", "checkThrew"}
    /\ hookResult' = ErrorsPayload(FailedPrefix \o ErrorToString(error))
    /\ pc' = "done"
    /\ UNCHANGED <<engineVars, warnings, error, scanVars>>

-----------------------------------------------------------------------------
(* Inputs of the plugin *)

DependencyGroups ==
    {"dependencies", "devDependencies", "optionalDependencies",
     "peerDependencies"}

PluginOptions ==
    { NoOptions,
      [NoOptions EXCEPT !.disallowed = Given(<<GPL3>>)],
      [NoOptions EXCEPT !.allowed = Given(<<MIT>>),
                        !.ignores = Given(<<<<"a",".","*">>>>)],
      [NoOptions EXCEPT !.allowed = Given(<<ISC>>)],
      [NoOptions EXCEPT !.disallowed = Given(<<MIT>>),
                        !.ignores = Given(<<<<"a","b">>, <<"[">>>>)],
      [NoOptions EXCEPT !.disallowed = Given(<<MIT>>),
                        !.dependencies = Given(<<"devDependencies">>)],
      [NoOptions EXCEPT !.allowed = Given(<<ISC>>),
                        !.dependencies =
                            Given(<<"dependencies", "peerDependencies">>)],
      [NoOptions EXCEPT !.disallowed = Given(<<MIT>>),
                        !.dependencies = Given(<<"bundledDependencies">>)] }

\* the plugin is set up and esbuild starts a build
InitHook ==
    /\ pc = "onStart"
    /\ options \in PluginOptions
    /\ cwd \in 0..MaxDepth
    /\ manifestAt \in SUBSET (0..MaxDepth)
    /\ manifest \in Manifests
    /\ installed \in {f \in [ScanNames -> InstallStates] :
                         f[<<"a","b">>] = f[<<"c">>]}
    /\ currentPath = cwd
    /\ found = Null
    /\ lookups = <<>>
    /\ packages = <<>>
    /\ idx = 1
    /\ violations = <<>>
    /\ warnings = <<>>
    /\ error = NoError
    /\ hookResult = NotReturned

NextHook ==
    \/ OnStart
    \/ NextScan
    \/ HookCallsCheck
    \/ CheckPackage
    \/ CheckThrows
    \/ CheckReturn
    \/ HookReturnsViolations
    \/ HookReturnsNothing
    \/ HookCatches

SpecHook == InitHook /\ [][NextHook]_vars

-----------------------------------------------------------------------------
(* Vocabulary of the properties *)

\* sub occurs in s, letter case ignored
ContainsCI(s, sub) ==
    \E i \in 0..Len(s) :
        /\ i + Len(sub) <= Len(s)
        /\ \A k \in 1..Len(sub) : toLowerChar(s[i + k]) = toLowerChar(sub[k])

\* some candidate identifier of the license contains some identifier of ids
CandidateContains(license, ids) ==
    \E c \in Range(parseLicenseExpression(license)) :
        \E d \in Range(ids) : ContainsCI(c, d)

\* some candidate identifier of the license is contained in some identifier of ids
CandidateWithin(license, ids) ==
    \E c \in Range(parseLicenseExpression(license)) :
        \E d \in Range(ids) : ContainsCI(d, c)

RECURSIVE GlobMatch(_, _)
\* the glob language: the whole name matches the pattern, * standing for zero
\* or more characters, ? for exactly one, any other character for itself
GlobMatch(pattern, name) ==
    IF pattern = <<>> THEN name = <<>>
    ELSE IF Head(pattern) = "*"
    THEN \/ GlobMatch(Tail(pattern), name)
         \/ name # <<>> /\ GlobMatch(pattern, Tail(name))
    ELSE /\ name # <<>>
         /\ Head(pattern) = "?" \/ Head(pattern) = Head(name)
         /\ GlobMatch(Tail(pattern), Tail(name))

GlobIgnored(name) ==
    \E p \in Range(Default(options.ignores)) : GlobMatch(p, name)

Allowed == Default(options.allowed)
Disallowed == Default(options.disallowed)
Ignores == Default(options.ignores)

Returned == pc = "checkReturned"

\* the check evaluates packages[i] against the policy
Evaluated(i) ==
    /\ ~isIgnored(packages[i].name, Ignores)
    /\ packages[i].license # UNKNOWN

\* the returned list holds a violation for the package record pkg
Reported(pkg) ==
    \E k \in DOMAIN violations :
        violations[k].package = pkg.name /\ violations[k].license = pkg.license

\* the k-th smallest element of a set of numbers
RECURSIVE Kth(_, _)
Kth(S, k) ==
    LET m == CHOOSE x \in S : \A y \in S : x <= y
    IN IF k = 1 THEN m ELSE Kth(S \ {m}, k - 1)

Reverse(xs) == [i \in DOMAIN xs |-> xs[Len(xs) + 1 - i]]

-----------------------------------------------------------------------------
(* Properties of checkLicenseCompliance, under SpecEngine *)

\* C1: deny dominates allow. Every package that is not ignored, whose license
\* is not "UNKNOWN" and one of whose candidate identifiers contains (letter
\* case ignored) an identifier of `disallowed` is reported as a violation,
\* whatever `allowed` holds.
C1_DenyDominatesAllow ==
    Returned =>
        \A i \in DOMAIN packages :
            (Evaluated(i) /\ CandidateContains(packages[i].license, Disallowed))
                => Reported(packages[i])

\* a denied identifier that is also allowed, and a denied OR-alternative beside
\* an allowed one, have both been reported
C1_Witness ==
    /\ Returned
    /\ \E i \in DOMAIN packages :
          /\ Evaluated(i)
          /\ CandidateContains(packages[i].license, Disallowed)
          /\ CandidateContains(packages[i].license, Allowed)
          /\ Len(parseLicenseExpression(packages[i].license)) = 2
          /\ Reported(packages[i])
    /\ \E i \in DOMAIN packages :
          /\ Evaluated(i)
          /\ \E c \in Range(parseLicenseExpression(packages[i].license)) :
                \E d \in Range(Disallowed) :
                    ContainsCI(c, d) /\ d \in Range(Allowed)
          /\ Reported(packages[i])

\* C2: a package that is not ignored, not "UNKNOWN" and free of disallowed
\* identifiers is reported exactly when `allowed` is non-empty and no
\* candidate contains an allowed identifier; with `allowed` and `disallowed`
\* both empty or omitted nothing is reported.
C2_AllowListDecides ==
    Returned =>
        /\ \A i \in DOMAIN packages :
              (Evaluated(i) /\ ~CandidateContains(packages[i].license, Disallowed))
                  => (Reported(packages[i])
                        <=> /\ Len(Allowed) > 0
                            /\ ~CandidateContains(packages[i].license, Allowed))
        /\ (Allowed = <<>> /\ Disallowed = <<>>) => violations = <<>>

\* one package outside a non-empty allow-list is reported, another inside it
\* is not
C2_Witness ==
    /\ Returned
    /\ Len(Allowed) > 0
    /\ \E i, j \in DOMAIN packages :
          /\ Evaluated(i) /\ Evaluated(j)
          /\ ~CandidateContains(packages[i].license, Disallowed)
          /\ ~CandidateContains(packages[j].license, Disallowed)
          /\ ~CandidateContains(packages[i].license, Allowed)
          /\ CandidateContains(packages[j].license, Allowed)
          /\ Reported(packages[i])
          /\ ~Reported(packages[j])

\* C3: ignoring is total. A package whose name matches one of the `ignores`
\* patterns as a glob yields no violation and no warning, whatever its license
\* and the policy, and the patterns' order does not change what the check does
\* with a package.
C3_IgnoringIsTotal ==
    Returned =>
        \A i \in DOMAIN packages :
            /\ GlobIgnored(packages[i].name)
                  => /\ \A k \in DOMAIN violations :
                            violations[k].package # packages[i].name
                     /\ \A k \in DOMAIN warnings :
                            warnings[k] # WarnNoLicense(packages[i].name)
            /\ CheckOne(packages[i], Allowed, Disallowed, Reverse(Ignores),
                        <<>>, <<>>)
                  = CheckOne(packages[i], Allowed, Disallowed, Ignores,
                             <<>>, <<>>)

\* an ignored package with a disallowed license and an ignored package with no
\* license went through the check, matched by the second of two patterns
C3_Witness ==
    /\ Returned
    /\ Len(Ignores) = 2
    /\ \E i, j \in DOMAIN packages :
          /\ GlobIgnored(packages[i].name) /\ GlobIgnored(packages[j].name)
          /\ ~GlobMatch(Ignores[1], packages[i].name)
          /\ CandidateContains(packages[i].license, Disallowed)
          /\ packages[j].license = UNKNOWN
    /\ violations = <<>>
    /\ warnings = <<>>

\* the number of elements of a sequence equal to x
Count(xs, x) == Cardinality({k \in DOMAIN xs : xs[k] = x})

\* C4: a package that is not ignored and whose license is "UNKNOWN" is never
\* reported, under any policy, and exactly one warning is emitted for it; no
\* such warning is emitted for any other package.
C4_UnknownWarnsOnce ==
    Returned =>
        /\ \A k \in DOMAIN violations : violations[k].license # UNKNOWN
        /\ \A n \in PackageNames :
              Count(warnings, WarnNoLicense(n))
                  = Cardinality({i \in DOMAIN packages :
                                    /\ packages[i].name = n
                                    /\ packages[i].license = UNKNOWN
                                    /\ ~isIgnored(n, Ignores)})
        /\ Len(warnings)
              = Cardinality({i \in DOMAIN packages :
                                /\ packages[i].license = UNKNOWN
                                /\ ~isIgnored(packages[i].name, Ignores)})

\* under an allow-list, a package with no license was warned about and not
\* reported, beside a package that was reported
C4_Witness ==
    /\ Returned
    /\ Len(Allowed) > 0
    /\ Len(warnings) = 1
    /\ Len(violations) = 1
    /\ \E i \in DOMAIN packages :
          /\ packages[i].license = UNKNOWN
          /\ warnings[1] = WarnNoLicense(packages[i].name)

\* the indices of the packages the check finds non-compliant
NonCompliant ==
    {i \in DOMAIN packages :
        /\ Evaluated(i)
        /\ ~isLicenseAllowed(packages[i].license, Allowed, Disallowed).allowed}

\* C5: the returned list holds one violation per non-compliant package record
\* (not ignored, not "UNKNOWN"), with the package's name and raw license
\* string, in the order of the input, and nothing else.
C5_ViolationsInInputOrder ==
    Returned =>
        /\ Len(violations) = Cardinality(NonCompliant)
        /\ \A k \in DOMAIN violations :
              /\ violations[k].package = packages[Kth(NonCompliant, k)].name
              /\ violations[k].license = packages[Kth(NonCompliant, k)].license

\* two different packages were reported, with a compliant one between
C5_Witness ==
    /\ Returned
    /\ Len(packages) >= 2
    /\ Len(violations) = 2
    /\ violations[1].package # violations[2].package
    /\ violations[1].license # violations[2].license
    /\ Len(parseLicenseExpression(violations[2].license)) = 2

\* C7, as stated: a package that is not ignored, not "UNKNOWN" and one of
\* whose candidate identifiers is contained (letter case ignored) in an entry
\* of `disallowed` is always reported, whatever `allowed` holds.
C7_CandidateWithinDisallowed ==
    Returned =>
        \A i \in DOMAIN packages :
            (Evaluated(i) /\ CandidateWithin(packages[i].license, Disallowed))
                => Reported(packages[i])

\* C7, amended: the containment runs the other way. A package that is not
\* ignored, not "UNKNOWN" and one of whose candidate identifiers contains
\* (letter case ignored) an entry of `disallowed` is found non-compliant by
\* the check under every allow-list.
C7_CandidateContainsDisallowed ==
    Returned =>
        \A i \in DOMAIN packages :
            (Evaluated(i) /\ CandidateContains(packages[i].license, Disallowed))
                => \A al \in AllowedLists :
                      LET out == CheckOne(packages[i], Default(al), Disallowed,
                                          Ignores, <<>>, <<>>)
                      IN /\ Len(out.violations) = 1
                         /\ out.violations[1].package = packages[i].name

\* a candidate longer than the disallowed entry it contains was reported
C7_Witness ==
    /\ Returned
    /\ \E i \in DOMAIN packages :
          /\ Evaluated(i)
          /\ \E c \in Range(parseLicenseExpression(packages[i].license)) :
                \E d \in Range(Disallowed) :
                    ContainsCI(c, d) /\ Len(c) > Len(d)
          /\ Reported(packages[i])


-----------------------------------------------------------------------------
(* Properties of scanPackages, under SpecScan *)

\* the lookup of a dependency succeeds: the first of the two install
\* directories that exists holds a package.json that parses
LookupSucceeds(packageName) ==
    LET first == IF NodeModules(found[1], packageName) # "absent"
                 THEN found[1] ELSE cwd
    IN NodeModules(first, packageName) = "valid"

\* the manifest's dependency names, each once, in the order of the groups
ManifestKeys ==
    LET all == manifest.dependencies \o manifest.devDependencies
                  \o manifest.optionalDependencies \o manifest.peerDependencies
    IN [k \in 1..Cardinality({i \in DOMAIN all :
                                 \A j \in 1..(i - 1) : all[j] # all[i]}) |->
           all[Kth({i \in DOMAIN all : \A j \in 1..(i - 1) : all[j] # all[i]}, k)]]

SucceededKeys == {i \in DOMAIN ManifestKeys : LookupSucceeds(ManifestKeys[i])}

\* C9: once the manifest is found and parsed, scanPackages never rejects,
\* whichever lookups fail and in whatever order they run, and it resolves
\* with exactly one record per dependency name whose lookup succeeded, in
\* manifest key order, carrying the license of that package's own manifest.
C9_LookupsAreIsolated ==
    /\ pc = "scanRejected" => (found = Null \/ ~manifest.valid) /\ lookups = <<>>
    /\ pc = "scanResolved" =>
          /\ Len(packages) = Cardinality(SucceededKeys)
          /\ \A k \in DOMAIN packages :
                /\ packages[k].name = ManifestKeys[Kth(SucceededKeys, k)]
                /\ packages[k].license
                      = extractLicense(PackageJsonOf(packages[k].name))

\* the first and the last of three lookups succeeded, the one between failed
C9_Witness ==
    /\ pc = "scanResolved"
    /\ Len(lookups) = 3
    /\ lookups[2].value = Null
    /\ Len(packages) = 2
    /\ packages[1].name = ManifestKeys[1]
    /\ packages[2].name = ManifestKeys[3]
    /\ Len(warnings) = 1

\* the directories from the working directory up to the root that hold a
\* package.json
ManifestsUpward == {d \in manifestAt : d <= cwd}

\* C10: findPackageJson returns the package.json of the nearest directory,
\* among the start directory and its ancestors up to and including the root,
\* that holds one, and null only when none of them does.
C10_FindsNearestManifest ==
    pc \in {"readManifest", "scanRejected", "lookups", "scanResolved"} =>
        IF ManifestsUpward = {}
        THEN found = Null
        ELSE found = <<CHOOSE d \in ManifestsUpward :
                          \A e \in ManifestsUpward : e <= d>>

-----------------------------------------------------------------------------
(* Properties of the plugin, under SpecHook *)

StartsWith(s, prefix) ==
    Len(prefix) <= Len(s) /\ SubSeq(s, 1, Len(prefix)) = prefix

RECURSIVE CommaList(_)
\* "name (license)" per violation, separated by ", "
CommaList(vs) ==
    IF vs = <<>> THEN <<>>
    ELSE LET item == Concat(<<vs[1].package, <<" ">>, <<"(">>, vs[1].license,
                              <<")">>>>)
         IN IF Len(vs) = 1 THEN item
            ELSE Concat(<<item, <<",">>, <<" ">>, CommaList(Tail(vs))>>)

ScanFailed == found = Null \/ ~manifest.valid

\* C6: the onStart callback returns nothing when the scan succeeds and the
\* check reports no violation, one error entry listing the violations as
\* "name (license)" in order when it reports some, and one error entry
\* wrapping the error when the scan or the check throws; the two payloads
\* differ in their text.
C6_HookPayloads ==
    pc = "done" =>
        /\ ScanFailed => error # NoError
        /\ (error = NoError /\ violations = <<>>)
              => hookResult = [kind |-> "undefined", errors |-> <<>>]
        /\ (error = NoError /\ violations # <<>>)
              => /\ hookResult.kind = "errors"
                 /\ Len(hookResult.errors) = 1
                 /\ hookResult.errors[1].text
                       = ViolationsPrefix \o CommaList(violations)
                 /\ hookResult.errors[1].location = Null
                 /\ ~StartsWith(hookResult.errors[1].text, FailedPrefix)
        /\ error # NoError
              => /\ hookResult.kind = "errors"
                 /\ Len(hookResult.errors) = 1
                 /\ hookResult.errors[1].text
                       = Concat(<<FailedPrefix, error.name, <<":">>, <<" ">>,
                                  error.message>>)
                 /\ hookResult.errors[1].location = Null
                 /\ ~StartsWith(hookResult.errors[1].text, ViolationsPrefix)

\* the callback returned a payload listing two violations
C6_Witness ==
    /\ pc = "done"
    /\ Len(violations) = 2
    /\ hookResult.kind = "errors"
    /\ StartsWith(hookResult.errors[1].text, ViolationsPrefix)

\* the names listed in the manifest's groups that options.dependencies names
SelectedNames ==
    UNION {Range(manifest[g]) :
              g \in Range(options.dependencies.value) \cap DependencyGroups}

\* C8: when options.dependencies is given, only the packages of the named
\* groups are scanned and checked, and an unrecognized group name is a
\* configuration error; when it is absent, all four groups are checked.
C8_DependenciesOptionSelectsGroups ==
    pc = "done" =>
        IF ~options.dependencies.given
        THEN ScanFailed \/ Len(lookups) = Len(ManifestKeys)
        ELSE IF Range(options.dependencies.value) \subseteq DependencyGroups
        THEN ScanFailed
                \/ /\ \A i \in DOMAIN packages : packages[i].name \in SelectedNames
                   /\ Len(lookups) = Cardinality(SelectedNames)
        ELSE hookResult.kind = "errors" /\ lookups = <<>>

=============================================================================
